---- MODULE Spec2Model ----
(***************************************************************************)
(* Model of the site synchronisation planner, src/src/sites/sync.rs.       *)
(*                                                                         *)
(* Strings are sequences of one-character strings, so that the path       *)
(* operations (component split, prefix test, hash removal) are computed   *)
(* on the characters and not assumed.                                      *)
(***************************************************************************)
EXTENDS Naturals, Sequences, FiniteSets, TLC

(* ---------------------------------------------------------------------- *)
(* Bounds of the model.                                                    *)
(* ---------------------------------------------------------------------- *)
\* largest number of keys the remote namespace holds initially
MaxRemote == 3
\* number of sync invocations in one behaviour
MaxRounds == 2
\* longest pair list handed to filter_files when it is called on its own
MaxLen == 2

(* ---------------------------------------------------------------------- *)
(* The universe of paths, keys, values and subsets.                        *)
(* ---------------------------------------------------------------------- *)
PathA == <<"a", "/", "f">>
PathB == <<"b", "/", "g">>
LogicalPaths == {PathA, PathB}
Hashes == {"1", "2"}

\* <logical-path><hash-suffix>: the key of a file with the given content hash
generate_path_and_key(path, hash) == path \o <<".", hash>>

\* every key, in the (lexicographic) order the remote listing yields them
AllKeys ==
    << generate_path_and_key(PathA, "1"), generate_path_and_key(PathA, "2"),
       generate_path_and_key(PathB, "1"), generate_path_and_key(PathB, "2") >>

KeySet == {AllKeys[i] : i \in DOMAIN AllKeys}

\* the configured subset: none (""), a directory, the same directory with a
\* trailing separator, and a string that is a prefix of keys as text but
\* not as a path
NoSubset == <<>>
Subsets == {NoSubset, <<"a">>, <<"a", "/">>, <<"a", "/", "f">>}

Values == {"old", "new"}

(* ---------------------------------------------------------------------- *)
(* std::path::Path as used by the planner.                                 *)
(* ---------------------------------------------------------------------- *)
RECURSIVE SplitAcc(_, _, _)
SplitAcc(s, cur, acc) ==
    IF s = <<>>
    THEN IF cur = <<>> THEN acc ELSE Append(acc, cur)
    ELSE IF Head(s) = "/"
         THEN SplitAcc(Tail(s), <<>>, IF cur = <<>> THEN acc ELSE Append(acc, cur))
         ELSE SplitAcc(Tail(s), Append(cur, Head(s)), acc)

\* Path::new(s).components(): the root, if any, then the non-empty segments;
\* repeated and trailing separators vanish, "." vanishes except in front
Components(s) ==
    LET segs == SplitAcc(s, <<>>, <<>>)
        rooted == s # <<>> /\ Head(s) = "/"
        keep == { i \in DOMAIN segs : segs[i] # <<".">> \/ (i = 1 /\ ~rooted) }
        RECURSIVE Pick(_)
        Pick(i) == IF i > Len(segs) THEN <<>>
                   ELSE IF i \in keep THEN <<segs[i]>> \o Pick(i + 1)
                   ELSE Pick(i + 1)
    IN  (IF rooted THEN << <<"/">> >> ELSE <<>>) \o Pick(1)

IsPrefix(p, s) ==
    /\ Len(p) <= Len(s)
    /\ \A i \in 1..Len(p) : p[i] = s[i]

\* Path::new(path).starts_with(base): whole components only
starts_with(path, base) == IsPrefix(Components(base), Components(path))

\* position of the last "." of s, 0 when there is none
LastDot(s) ==
    LET dots == { i \in DOMAIN s : s[i] = "." }
    IN  IF dots = {} THEN 0 ELSE CHOOSE i \in dots : \A j \in dots : j <= i

\* the key without its hash suffix: the logical path
remove_hash_from_path(key) ==
    IF LastDot(key) = 0 THEN key ELSE SubSeq(key, 1, LastDot(key) - 1)

(* ---------------------------------------------------------------------- *)
(* The pure functions of sync.rs.                                          *)
(* ---------------------------------------------------------------------- *)
RECURSIVE filter_loop(_, _, _, _)
filter_loop(ps, already_uploaded, subset, filtered_pairs) ==
    IF ps = <<>>
    THEN filtered_pairs
    ELSE filter_loop(Tail(ps), already_uploaded, subset,
            IF starts_with(Head(ps).key, subset) /\ Head(ps).key \notin already_uploaded
            THEN Append(filtered_pairs, Head(ps))
            ELSE filtered_pairs)

RECURSIVE filter_loop_nosubset(_, _, _)
filter_loop_nosubset(ps, already_uploaded, filtered_pairs) ==
    IF ps = <<>>
    THEN filtered_pairs
    ELSE filter_loop_nosubset(Tail(ps), already_uploaded,
            IF Head(ps).key \notin already_uploaded
            THEN Append(filtered_pairs, Head(ps))
            ELSE filtered_pairs)

\* filter_files without the subset test
filter_files_nosubset(ps, already_uploaded, subset) ==
    filter_loop_nosubset(ps, already_uploaded, <<>>)

RECURSIVE filter_loop_front(_, _, _, _)
filter_loop_front(ps, already_uploaded, subset, filtered_pairs) ==
    IF ps = <<>>
    THEN filtered_pairs
    ELSE filter_loop_front(Tail(ps), already_uploaded, subset,
            IF starts_with(Head(ps).key, subset) /\ Head(ps).key \notin already_uploaded
            THEN <<Head(ps)>> \o filtered_pairs
            ELSE filtered_pairs)

\* filter_files inserting at the front instead of pushing at the back
filter_files_front(ps, already_uploaded, subset) ==
    filter_loop_front(ps, already_uploaded, subset, <<>>)

filter_files(ps, already_uploaded, subset) ==
    filter_loop(ps, already_uploaded, subset, <<>>)

\* subset_keys treating the unset subset as "nothing selected"
subset_keys_unset(keys, subset) ==
    { key \in keys : subset # <<>> /\ starts_with(key, subset) }

\* subset_keys ignoring the subset
subset_keys_all(keys, subset) == keys

subset_keys(keys, subset) == { key \in keys : starts_with(key, subset) }

\* the keys of a pair list (the local_keys loop of sync)
KeysOf(ps) == { ps[i].key : i \in DOMAIN ps }

\* difference that keeps a remote key while its logical path still exists
\* locally (an update in place)
difference_by_path(a, b) ==
    { k \in a : \A l \in b : remove_hash_from_path(l) # remove_hash_from_path(k) }

\* HashSet::difference
difference(a, b) == a \ b

\* the orders in which a HashSet can be iterated: every permutation
Orders(S) ==
    { s \in [1..Cardinality(S) -> S] : \A i, j \in DOMAIN s : i # j => s[i] # s[j] }

Range(s) == { s[i] : i \in DOMAIN s }

(* ---------------------------------------------------------------------- *)
(* State.                                                                  *)
(* ---------------------------------------------------------------------- *)
VARIABLES
    remote,          \* the keys the remote namespace holds
    local,           \* the pairs the local directory produces, in scan order
    subset_str,      \* target.site.subset, "" when unset
    round,           \* number of sync invocations started
    pc,              \* position of the current invocation
    records,         \* what the remote listing of this invocation yields
    consumed,        \* number of records taken from the listing
    remote_keys,
    remote_subset,
    scan_calls,      \* calls of directory_keys_values in this invocation
    pairs,
    asset_manifest,
    local_subset,
    to_upload,
    to_delete,
    result,          \* "none" while running, then "ok" or "err"
    prev             \* the plan of the previous invocation, as the caller kept it

vars ==
    << remote, local, subset_str, round, pc, records, consumed, remote_keys,
       remote_subset, scan_calls, pairs, asset_manifest, local_subset,
       to_upload, to_delete, result, prev >>

EmptyManifest == [p \in {} |-> <<>>]

NoPrev ==
    [valid |-> FALSE, applied |-> FALSE, to_upload |-> <<>>, to_delete |-> <<>>,
     remote |-> {}]

\* the content of the file whose hash is h
ContentOf(h) == IF h = "1" THEN "old" ELSE "new"

FilePairs ==
    { [key |-> generate_path_and_key(p, h), value |-> ContentOf(h)] :
        p \in LogicalPaths, h \in Hashes }

SeqsUpTo(S, n) == UNION { [1..m -> S] : m \in 0..n }

\* a directory holds at most one file per logical path
LocalTrees ==
    { s \in SeqsUpTo(FilePairs, Cardinality(LogicalPaths)) :
        \A i, j \in DOMAIN s :
            i # j => remove_hash_from_path(s[i].key) # remove_hash_from_path(s[j].key) }

\* directory_keys_values: one manifest entry per file, logical path -> key
ManifestOf(ps) ==
    [ p \in { remove_hash_from_path(ps[i].key) : i \in DOMAIN ps } |->
        (CHOOSE k \in KeysOf(ps) : remove_hash_from_path(k) = p) ]

Ok(name) == [ok |-> TRUE, name |-> name]
Err == [ok |-> FALSE, name |-> <<>>]

InsertAt(s, i, x) == SubSeq(s, 1, i - 1) \o <<x>> \o SubSeq(s, i, Len(s))

\* KeyList: the keys of the namespace in order, with at most one failing
\* record at any position
Listings(keys) ==
    LET names == SelectSeq(AllKeys, LAMBDA k : k \in keys)
        good == [i \in DOMAIN names |-> Ok(names[i])]
    IN  {good} \cup { InsertAt(good, i, Err) : i \in 1..(Len(good) + 1) }

Init ==
    /\ remote \in { S \in SUBSET KeySet : Cardinality(S) <= MaxRemote }
    /\ local \in LocalTrees
    /\ subset_str \in Subsets
    /\ round = 0
    /\ pc = "idle"
    /\ records = <<>>
    /\ consumed = 0
    /\ remote_keys = {}
    /\ remote_subset = {}
    /\ scan_calls = 0
    /\ pairs = <<>>
    /\ asset_manifest = EmptyManifest
    /\ local_subset = {}
    /\ to_upload = <<>>
    /\ to_delete = <<>>
    /\ result = "none"
    /\ prev = NoPrev

(* ---------------------------------------------------------------------- *)
(* sync, step by step.                                                     *)
(* ---------------------------------------------------------------------- *)
\* entry of sync: validate_target, subset_str, the client and the listing
Begin ==
    /\ pc = "idle"
    /\ round < MaxRounds
    /\ round' = round + 1
    /\ \E recs \in Listings(remote) : records' = recs
    /\ consumed' = 0
    /\ remote_keys' = {}
    /\ remote_subset' = {}
    /\ scan_calls' = 0
    /\ pairs' = <<>>
    /\ asset_manifest' = EmptyManifest
    /\ local_subset' = {}
    /\ to_upload' = <<>>
    /\ to_delete' = <<>>
    /\ result' = "none"
    /\ pc' = "list"
    /\ UNCHANGED << remote, local, subset_str, prev >>

\* validate_target, cf_v4_client or KeyList::new fails: sync returns the error
BeginFail ==
    /\ pc = "idle"
    /\ round < MaxRounds
    /\ round' = round + 1
    /\ records' = <<>>
    /\ consumed' = 0
    /\ remote_keys' = {}
    /\ remote_subset' = {}
    /\ scan_calls' = 0
    /\ pairs' = <<>>
    /\ asset_manifest' = EmptyManifest
    /\ local_subset' = {}
    /\ to_upload' = <<>>
    /\ to_delete' = <<>>
    /\ result' = "err"
    /\ pc' = "failed"
    /\ UNCHANGED << remote, local, subset_str, prev >>

\* Ok(remote_key) => remote_keys.insert(remote_key.name)
ListOk ==
    /\ pc = "list"
    /\ consumed < Len(records)
    /\ records[consumed + 1].ok
    /\ consumed' = consumed + 1
    /\ remote_keys' = remote_keys \cup {records[consumed + 1].name}
    /\ UNCHANGED << remote, local, subset_str, round, pc, records, remote_subset,
                    scan_calls, pairs, asset_manifest, local_subset, to_upload,
                    to_delete, result, prev >>

\* Err(e) => continue with the next record
ListErrSkip ==
    /\ pc = "list"
    /\ consumed < Len(records)
    /\ ~records[consumed + 1].ok
    /\ consumed' = consumed + 1
    /\ UNCHANGED << remote, local, subset_str, round, pc, records, remote_keys,
                    remote_subset, scan_calls, pairs, asset_manifest, local_subset,
                    to_upload, to_delete, result, prev >>

\* Err(e) => leave the loop and plan with the keys read so far
ListErrBreak ==
    /\ pc = "list"
    /\ consumed < Len(records)
    /\ ~records[consumed + 1].ok
    /\ consumed' = consumed + 1
    /\ remote_subset' = subset_keys(remote_keys, subset_str)
    /\ pc' = "scan"
    /\ UNCHANGED << remote, local, subset_str, round, records, remote_keys,
                    scan_calls, pairs, asset_manifest, local_subset, to_upload,
                    to_delete, result, prev >>

\* Err(e) => failure::bail!(kv::format_error(e))
ListErr ==
    /\ pc = "list"
    /\ consumed < Len(records)
    /\ ~records[consumed + 1].ok
    /\ consumed' = consumed + 1
    /\ result' = "err"
    /\ pc' = "failed"
    /\ UNCHANGED << remote, local, subset_str, round, records, remote_keys,
                    remote_subset, scan_calls, pairs, asset_manifest, local_subset,
                    to_upload, to_delete, prev >>

\* the listing is exhausted: remote_subset = subset_keys(&remote_keys, ..)
ListEnd ==
    /\ pc = "list"
    /\ consumed = Len(records)
    /\ remote_subset' = subset_keys(remote_keys, subset_str)
    /\ pc' = "scan"
    /\ UNCHANGED << remote, local, subset_str, round, records, consumed,
                    remote_keys, scan_calls, pairs, asset_manifest, local_subset,
                    to_upload, to_delete, result, prev >>

\* directory_keys_values(target, path)? succeeds
Scan ==
    /\ pc = "scan"
    /\ scan_calls' = scan_calls + 1
    /\ pairs' = local
    /\ asset_manifest' = ManifestOf(local)
    /\ pc' = "reconcile"
    /\ UNCHANGED << remote, local, subset_str, round, records, consumed,
                    remote_keys, remote_subset, local_subset, to_upload,
                    to_delete, result, prev >>

\* directory_keys_values(target, path)? fails
ScanFail ==
    /\ pc = "scan"
    /\ scan_calls' = scan_calls + 1
    /\ result' = "err"
    /\ pc' = "failed"
    /\ UNCHANGED << remote, local, subset_str, round, records, consumed,
                    remote_keys, remote_subset, pairs, asset_manifest,
                    local_subset, to_upload, to_delete, prev >>

\* local_keys, local_subset, to_upload, to_delete; the Vec collected from
\* the difference has the iteration order of a HashSet: any order
Reconcile ==
    /\ pc = "reconcile"
    /\ local_subset' = subset_keys(KeysOf(pairs), subset_str)
    /\ to_upload' = filter_files(pairs, remote_subset, subset_str)
    /\ \E order \in Orders(difference(remote_subset, local_subset')) :
            to_delete' = order
    /\ pc' = "patch"
    /\ UNCHANGED << remote, local, subset_str, round, records, consumed,
                    remote_keys, remote_subset, scan_calls, pairs,
                    asset_manifest, result, prev >>

\* what remote_keys.iter().find(..) can return for a manifest key: the first
\* key, in the iteration order of the HashSet, whose path without hash is
\* the manifest key; any matching key can be the first
find_outcomes(keys, key) == { k \in keys : key = remove_hash_from_path(k) }

\* the patch applied inside the subset instead of outside it
patch_outcomes_inside(key, val, keys, subset) ==
    IF starts_with(key, subset) /\ find_outcomes(keys, key) # {}
    THEN find_outcomes(keys, key)
    ELSE {val}

\* the patch applied to every entry
patch_outcomes_everywhere(key, val, keys, subset) ==
    IF find_outcomes(keys, key) # {} THEN find_outcomes(keys, key) ELSE {val}

\* the values one manifest entry can have after the body of the iter_mut loop
patch_outcomes(key, val, keys, subset) ==
    IF ~starts_with(key, subset) /\ find_outcomes(keys, key) # {}
    THEN find_outcomes(keys, key)
    ELSE {val}

\* the manifest pass, then StdErr::success and Ok((to_upload, to_delete, asset_manifest))
Patch ==
    /\ pc = "patch"
    /\ IF subset_str # <<>>
       THEN asset_manifest' \in
                { m \in [DOMAIN asset_manifest -> KeySet] :
                    \A key \in DOMAIN asset_manifest :
                        m[key] \in patch_outcomes(key, asset_manifest[key],
                                                  remote_keys, subset_str) }
       ELSE asset_manifest' = asset_manifest
    /\ result' = "ok"
    /\ pc' = "done"
    /\ UNCHANGED << remote, local, subset_str, round, records, consumed,
                    remote_keys, remote_subset, scan_calls, pairs, local_subset,
                    to_upload, to_delete, prev >>

(* ---------------------------------------------------------------------- *)
(* The caller, between two invocations.                                    *)
(* ---------------------------------------------------------------------- *)
\* the caller carries the plan out: bulk delete, bulk write
Apply ==
    /\ pc = "done"
    /\ round < MaxRounds
    /\ prev' = [valid |-> TRUE, applied |-> TRUE, to_upload |-> to_upload,
                to_delete |-> to_delete, remote |-> remote]
    /\ remote' = (remote \ Range(to_delete)) \cup KeysOf(to_upload)
    /\ pc' = "idle"
    /\ UNCHANGED << local, subset_str, round, records, consumed, remote_keys,
                    remote_subset, scan_calls, pairs, asset_manifest,
                    local_subset, to_upload, to_delete, result >>

\* the caller keeps the plan and does not touch the namespace
Keep ==
    /\ pc = "done"
    /\ round < MaxRounds
    /\ prev' = [valid |-> TRUE, applied |-> FALSE, to_upload |-> to_upload,
                to_delete |-> to_delete, remote |-> remote]
    /\ pc' = "idle"
    /\ UNCHANGED << remote, local, subset_str, round, records, consumed,
                    remote_keys, remote_subset, scan_calls, pairs,
                    asset_manifest, local_subset, to_upload, to_delete, result >>

\* after a failed invocation there is no plan
Retry ==
    /\ pc = "failed"
    /\ round < MaxRounds
    /\ prev' = NoPrev
    /\ pc' = "idle"
    /\ UNCHANGED << remote, local, subset_str, round, records, consumed,
                    remote_keys, remote_subset, scan_calls, pairs,
                    asset_manifest, local_subset, to_upload, to_delete, result >>

Next ==
    \/ Begin
    \/ BeginFail
    \/ ListOk
    \/ ListErr
    \/ ListEnd
    \/ Scan
    \/ ScanFail
    \/ Reconcile
    \/ Patch
    \/ Apply
    \/ Keep
    \/ Retry

Spec == Init /\ [][Next]_vars

(* ---------------------------------------------------------------------- *)
(* filter_files called on its own, as the unit test calls it.              *)
(* ---------------------------------------------------------------------- *)
PairUniverse == [key : KeySet, value : Values]

FilterInit ==
    /\ pairs \in SeqsUpTo(PairUniverse, MaxLen)
    /\ remote_subset \in SUBSET KeySet
    /\ subset_str \in Subsets
    /\ pc = "call"
    /\ to_upload = <<>>
    /\ remote = {}
    /\ local = <<>>
    /\ round = 0
    /\ records = <<>>
    /\ consumed = 0
    /\ remote_keys = {}
    /\ scan_calls = 0
    /\ asset_manifest = EmptyManifest
    /\ local_subset = {}
    /\ to_delete = <<>>
    /\ result = "none"
    /\ prev = NoPrev

FilterCall ==
    /\ pc = "call"
    /\ to_upload' = filter_files(pairs, remote_subset, subset_str)
    /\ pc' = "returned"
    /\ UNCHANGED << remote, local, subset_str, round, records, consumed,
                    remote_keys, remote_subset, scan_calls, pairs,
                    asset_manifest, local_subset, to_delete, result, prev >>

FilterNext == FilterCall

FilterSpec == FilterInit /\ [][FilterNext]_vars

(* ---------------------------------------------------------------------- *)
(* Properties.                                                             *)
(* ---------------------------------------------------------------------- *)
InSubset(key) == starts_with(key, subset_str)

Planned == pc \in {"patch", "done"}

RECURSIVE IsSubseq(_, _)
IsSubseq(s, t) ==
    IF s = <<>> THEN TRUE
    ELSE IF t = <<>> THEN FALSE
    ELSE IF Head(s) = Head(t) THEN IsSubseq(Tail(s), Tail(t))
    ELSE IsSubseq(s, Tail(t))

Count(s, x) == Cardinality({ i \in DOMAIN s : s[i] = x })

NoRepeat(s) == \A i, j \in DOMAIN s : i # j => s[i] # s[j]

\* C1: a pair is in the result of filter_files exactly when it is one of the
\* input pairs, its key starts with the subset (as a path) and its key is
\* not among the keys already uploaded.
UploadInclusion ==
    pc = "returned" =>
        \A p \in PairUniverse :
            p \in Range(to_upload) <=>
                /\ p \in Range(pairs)
                /\ InSubset(p.key)
                /\ p.key \notin remote_subset

\* filter_files returned some pairs, dropped one for the subset and one for
\* being uploaded already
UploadInclusionWitness ==
    /\ pc = "returned"
    /\ subset_str # <<>>
    /\ to_upload # <<>>
    /\ \E i \in DOMAIN pairs : ~InSubset(pairs[i].key)
    /\ remote_subset \cap KeysOf(pairs) # {}

\* C2: the keys staged for deletion are exactly the remote keys of the
\* subset that are not local keys of the subset, each once.
DeleteCorrectness ==
    Planned =>
        /\ Range(to_delete) =
              { k \in remote_keys : InSubset(k) } \ { k \in KeysOf(pairs) : InSubset(k) }
        /\ NoRepeat(to_delete)
        /\ remote_keys = remote

\* two keys are staged for deletion while a remote key outside the subset,
\* absent locally, is kept
DeleteCorrectnessWitness ==
    /\ pc = "done"
    /\ subset_str # <<>>
    /\ Len(to_delete) >= 2
    /\ \E k \in remote_keys : ~InSubset(k) /\ k \notin KeysOf(pairs)

\* C3: when the content of a logical path of the subset changed, the old key
\* is staged for deletion and the new key for upload by the same sync; a key
\* present on both sides is staged for neither.
UpdateAsAddRemove ==
    Planned =>
        /\ \A kold \in remote_keys, knew \in KeysOf(pairs) :
              ( /\ remove_hash_from_path(kold) = remove_hash_from_path(knew)
                /\ kold # knew
                /\ kold \notin KeysOf(pairs)
                /\ knew \notin remote_keys
                /\ InSubset(kold)
                /\ InSubset(knew) )
              => kold \in Range(to_delete) /\ knew \in KeysOf(to_upload)
        /\ \A k \in remote_keys \cap KeysOf(pairs) :
              k \notin Range(to_delete) /\ k \notin KeysOf(to_upload)

\* one path was updated and another is unchanged on both sides
UpdateAsAddRemoveWitness ==
    /\ pc = "done"
    /\ \E kold \in remote_keys, knew \in KeysOf(pairs) :
          /\ remove_hash_from_path(kold) = remove_hash_from_path(knew)
          /\ kold # knew
          /\ knew \notin remote_keys
          /\ InSubset(kold)
          /\ InSubset(knew)
          /\ kold \in Range(to_delete)
    /\ remote_keys \cap KeysOf(pairs) # {}

\* C4 as stated: after patching, an entry outside the subset has the value
\* of every remote key that strips to its logical path.
ManifestEveryMatch ==
    pc = "done" =>
        \A path \in DOMAIN asset_manifest :
            ~InSubset(path) =>
                \A k \in remote_keys :
                    remove_hash_from_path(k) = path => asset_manifest[path] = k

\* C4 amended: after patching, an entry outside the subset for which a remote
\* key strips to its logical path has one of those remote keys as its value
\* (the only one when there is one).
ManifestSomeMatch ==
    pc = "done" =>
        \A path \in DOMAIN asset_manifest :
            ( /\ ~InSubset(path)
              /\ \E k \in remote_keys : remove_hash_from_path(k) = path )
            => /\ asset_manifest[path] \in remote_keys
               /\ remove_hash_from_path(asset_manifest[path]) = path

\* an entry outside the subset was rewritten from the local key to a remote key
ManifestSomeMatchWitness ==
    /\ pc = "done"
    /\ \E path \in DOMAIN asset_manifest :
          /\ ~InSubset(path)
          /\ asset_manifest[path] \in remote_keys
          /\ asset_manifest[path] \notin KeysOf(pairs)

\* C5: the manifest pass leaves the entries of the subset alone (all of them
\* when no subset is set), changes an entry outside the subset only to a
\* differing remote key that strips to its logical path, and keeps the
\* logical paths.
PatchScope ==
    [][ (pc = "patch" /\ pc' = "done") =>
            /\ DOMAIN asset_manifest' = DOMAIN asset_manifest
            /\ subset_str = <<>> => asset_manifest' = asset_manifest
            /\ \A path \in DOMAIN asset_manifest :
                  /\ InSubset(path) => asset_manifest'[path] = asset_manifest[path]
                  /\ asset_manifest'[path] # asset_manifest[path] =>
                        /\ asset_manifest'[path] \in remote_keys
                        /\ remove_hash_from_path(asset_manifest'[path]) = path
                  /\ (\A k \in remote_keys :
                          remove_hash_from_path(k) = path => k = asset_manifest[path])
                     => asset_manifest'[path] = asset_manifest[path] ]_vars

\* the pass rewrote an entry outside the subset and kept an entry of the
\* subset whose remote key differs from its value
PatchScopeWitness ==
    /\ pc = "done"
    /\ \E path \in DOMAIN asset_manifest :
          ~InSubset(path) /\ asset_manifest[path] \notin KeysOf(pairs)
    /\ \E path \in DOMAIN asset_manifest :
          /\ InSubset(path)
          /\ asset_manifest[path] \in KeysOf(pairs)
          /\ \E k \in remote_keys :
                remove_hash_from_path(k) = path /\ k # asset_manifest[path]

\* the failing record of the listing has been taken
ErrSeen == \E i \in 1..consumed : ~records[i].ok

\* C6: once the listing has yielded an error, sync has stopped at that first
\* error and returned an error: no record after it is taken, no upload set,
\* no delete set, no manifest, and the directory is not scanned.
FailFast ==
    ErrSeen =>
        /\ pc \in {"failed", "idle"}
        /\ result = "err"
        /\ ~records[consumed].ok
        /\ \A i \in 1..(consumed - 1) : records[i].ok
        /\ to_upload = <<>>
        /\ to_delete = <<>>
        /\ asset_manifest = EmptyManifest
        /\ pairs = <<>>
        /\ scan_calls = 0

\* the error came after a record was read and before the last one
FailFastWitness ==
    /\ pc = "failed"
    /\ ErrSeen
    /\ consumed >= 2
    /\ consumed < Len(records)
    /\ remote_keys # {}

SubsetIdentity ==
    subset_str = <<>> =>
        /\ pc \in {"scan", "reconcile", "patch", "done"} => remote_subset = remote_keys
        /\ Planned => local_subset = KeysOf(pairs)

\* keys of both directories went through the filter
SubsetIdentityWitness ==
    /\ subset_str = <<>>
    /\ pc = "done"
    /\ \E k1, k2 \in remote_subset : k1[1] # k2[1]
    /\ \E k1, k2 \in local_subset : k1[1] # k2[1]

\* C9: the result of filter_files is a subsequence of its input: the pairs
\* kept are in input order, as often as in the input, and unchanged.
StableUploadOrder ==
    pc = "returned" =>
        /\ IsSubseq(to_upload, pairs)
        /\ \A p \in Range(to_upload) : Count(to_upload, p) = Count(pairs, p)

\* two different pairs were kept
StableUploadOrderWitness ==
    /\ pc = "returned"
    /\ Len(to_upload) = 2
    /\ to_upload[1] # to_upload[2]

\* C10: once the plan has been carried out on the namespace it was computed
\* from, the namespace holds within the subset exactly the local keys of the
\* subset, outside the subset exactly what it held, and the next sync
\* returns an empty plan.
Convergence ==
    (prev.valid /\ prev.applied) =>
        /\ { k \in remote : InSubset(k) } = { k \in KeysOf(local) : InSubset(k) }
        /\ { k \in remote : ~InSubset(k) } = { k \in prev.remote : ~InSubset(k) }
        /\ pc = "done" => to_upload = <<>> /\ to_delete = <<>>

\* a plan with uploads and deletions was carried out, a key outside the
\* subset stayed, and the next sync has returned
ConvergenceWitness ==
    /\ prev.valid
    /\ prev.applied
    /\ prev.to_upload # <<>>
    /\ prev.to_delete # <<>>
    /\ \E k \in remote : ~InSubset(k) /\ k \notin KeysOf(local)
    /\ pc = "done"

====
